---- MODULE Spec2Model ----
(***************************************************************************)
(* Model of the hexagon tessellation of apps/spatial_materials.py (class   *)
(* Hexagons, regular_hexagon, regular_hexagon_gdf) and of the vertex read  *)
(* it performs through apps/disassembly.py (geom_disassembly).             *)
(*                                                                         *)
(* Numbers.  All quantities are integers in fixed units:                   *)
(*   hectare        unit 1e-13 ha                                          *)
(*   _square_metre  unit 1e-13 m2  (1e-13 ha * 10_000 = 1e-9 m2 = 10000 u) *)
(*   box, margin    unit U = 1e-4 m (the resolution of round(.., 4))       *)
(*   side_length    unit U                                                 *)
(*   vertex x       unit (sqrt(3)/2) * U, relative to the start x          *)
(*   vertex y       unit (1/2) * U,       relative to the start y          *)
(* In the vertex units sin and cos of the multiples of 60 degrees are the  *)
(* integers of SinT and CosT, so vertex k of a hexagon of side s centred   *)
(* at c is (c.x + s*SinT[k], c.y + s*CosT[k]) exactly.  Comparisons of a   *)
(* vertex coordinate with a box coordinate are decided exactly by squaring *)
(* (3 * a^2 against 4 * d^2).                                              *)
(*                                                                         *)
(* Floating point.  math.sin(math.radians(360)) is -2.449e-16, not 0, so   *)
(* the seventh generated point has x = fl(cx + s * -2.449e-16).  Whether   *)
(* that equals cx depends on the magnitudes of cx and s; the field r of a  *)
(* point records the residue (r = 1: x lies below the lattice x by less    *)
(* than the resolution) and the variable closes is the input-determined    *)
(* fact fl(cx + s*sin(2 pi)) = cx.  It decides the length of a polygon's   *)
(* ring (7 or 8 coordinates) and with it coords[-2] of _sbs_x_off.  The    *)
(* other rounding residues (sin(pi) = 1.2e-16, the last bit of sin(pi/3))  *)
(* move a vertex by less than the resolution and change no comparison of   *)
(* the code; they are not represented.                                     *)
(***************************************************************************)
EXTENDS Integers, Sequences, FiniteSets, TLC

\* ------------------------------------------------------------------ bounds
\* Largest box coordinate (unit U) the inputs are drawn from.
MaxCoord == 2
\* Largest margin (unit U); margins are drawn from -1 .. MaxMargin.
MaxMargin == 1
\* Largest hectare (unit 1e-13 ha) the inputs are drawn from.
MaxHectare == 59
\* Longest row the model follows: a RowBuilder loop that has not stopped at
\* this length is cut (the loop with side_length = 0 never stops).
MaxRowLen == 9
\* Number of reads of create_hexagons_gdf on one instance.
MaxReads == 2
\* Longest row given to _fit and _fitting when they are called on their own.
MaxFitLen == 2
\* Largest number of upper rows, and of lower rows, given to _fitting.
MaxRows == 2

Hectares == {-1, 0, 1, 7, MaxHectare}
Coords == 0..MaxCoord
Margins == -1..MaxMargin

None == "None"

abs(n) == IF n < 0 THEN -n ELSE n

\* ------------------------------------------------- Hexagons._regular_hexagon
\* sin(60 (k-1) deg) in units of sqrt(3)/2 and cos(60 (k-1) deg) in units of
\* 1/2, for the seven angles of range(0, 420, 60).
SinT == <<0, 1, 1, 0, -1, -1, 0>>
CosT == <<2, 1, -1, -2, -1, 1, 2>>

\* Sides the rounding can produce for the hectares of the model.
Sides == 0..4

\* round(v, 4) = k * 1e-4 for v = sqrt(sq / (1.5 * sqrt(3))) metres:
\* (2k-1)^2 <= 4 v^2 / U^2 < (2k+1)^2, with 4 v^2 / U^2 = sq / (3750 sqrt(3))
\* in the unit of sq; squared and divided by 2500^2 to stay in 32 bits.
RoundsTo(sq, k) ==
    LET q == sq \div 2500
        lo == 15 * (2 * k - 1) * (2 * k - 1)
        hi == 15 * (2 * k + 1) * (2 * k + 1)
    IN /\ (k = 0 \/ 3 * lo * lo <= q * q)
       /\ q * q < 3 * hi * hi

\* Mutant of side_length: the square root is truncated to 4 decimals instead
\* of rounded, (2k)^2 <= 4 v^2 / U^2 < (2k+2)^2.
side_length_truncated(sq) ==
    CHOOSE k \in Sides :
        LET q == sq \div 2500
            lo == 15 * (2 * k) * (2 * k)
            hi == 15 * (2 * k + 2) * (2 * k + 2)
        IN 3 * lo * lo <= q * q /\ q * q < 3 * hi * hi

\* side_length = round(math.sqrt(self._square_metre / (1.5 * math.sqrt(3))), 4)
\* for _square_metre >= 0 (math.sqrt raises ValueError below 0).
side_length(sq) == CHOOSE k \in Sides : RoundsTo(sq, k)

\* Mutant of HVertices: the angles run counter-clockwise (sin negated).
HVerticesCounterClockwise(cx, cy, side, fl) ==
    [a \in 1..Len(SinT) |->
        [x |-> cx - side * SinT[a],
         y |-> cy + side * CosT[a],
         r |-> IF a = Len(SinT) /\ ~fl THEN 1 ELSE 0]]

\* The list h_vertices: one point for each of the seven angles of
\* range(0, 420, 60): x = center.x + side_length * sin(angle),
\* y = center.y + side_length * cos(angle).
HVertices(cx, cy, side, fl) ==
    [a \in 1..Len(SinT) |->
        [x |-> cx + side * SinT[a],
         y |-> cy + side * CosT[a],
         r |-> IF a = Len(SinT) /\ ~fl THEN 1 ELSE 0]]

\* shapely.Polygon(h_vertices): the exterior ring; a ring whose last point is
\* not equal to its first is closed by repeating the first point.
Polygon(pts) ==
    IF pts[1] = pts[Len(pts)] THEN pts ELSE Append(pts, pts[1])

\* _regular_hexagon(center_x, center_y) for _square_metre >= 0.
_regular_hexagon(cx, cy, sq, fl) == Polygon(HVertices(cx, cy, side_length(sq), fl))

\* shapely.affinity.translate(poly, xoff, yoff)
translate(poly, xoff, yoff) ==
    [i \in DOMAIN poly |-> [poly[i] EXCEPT !.x = @ + xoff, !.y = @ + yoff]]

\* max of a non-empty list of numbers
max(S) == CHOOSE m \in S : \A n \in S : n <= m

\* __calc_x_max: max of the x of poly.exterior.coords
__calc_x_max(poly) == max({poly[i].x : i \in DOMAIN poly})

\* _sbs_x_off: abs(coords[1][0] - coords[-2][0])
_sbs_x_off(poly) == abs(poly[2].x - poly[Len(poly) - 1].x)

\* Mutant of BoxLtX: d <= px * sqrt(3)/2, the loop stops when the newest
\* hexagon reaches end_x.
BoxLeX(d, px) ==
    IF px >= 0 THEN d <= 0 \/ 4 * d * d <= 3 * px * px
               ELSE d < 0 /\ 4 * d * d >= 3 * px * px

\* d < px * sqrt(3)/2 : a box distance d (unit U) against a vertex x px.
BoxLtX(d, px) ==
    IF px >= 0 THEN d < 0 \/ 4 * d * d < 3 * px * px
               ELSE d < 0 /\ 4 * d * d > 3 * px * px

\* ------------------------------------------------ disassembly.geom_disassembly
\* A response type is an int or a str: [int |-> n] or [str |-> s].
IntKey(n) == [int |-> n]
StrKey(t) == [str |-> t]

\* DisassembledTypes.POINT
POINT == 0

\* The keys of the dispatch table funcs of Disassemblies.geom_disassembly.
ResponseTypes == {IntKey(n) : n \in 0..9}

\* The response type the tessellation passes in every vertex read:
\* geom_disassembly(poly, 'point').
PointRequest == StrKey("point")

\* Disassemblies.geom_disassembly for a Polygon (geom_id 3): funcs.get of a key
\* that is not in the table is None, an error is logged and None is returned;
\* key POINT gives points_from_poly = PolyParts(shell, holes); the other keys
\* give the value of their own kind.
geom_disassembly(poly, response_type) ==
    IF response_type \notin ResponseTypes THEN None
    ELSE IF response_type = IntKey(POINT)
         THEN [shell |-> poly, holes |-> <<>>]
         ELSE [kind |-> response_type, geom |-> poly]

\* v[...] : indexing or slicing None raises TypeError.
Subscriptable(v) == v # None

\* --------------------------------------------------------------------- state
VARIABLES
    pc,         \* position of the running call
    call,       \* the entry point called: regular_hexagon or regular_hexagon_gdf
    args,       \* the arguments of the call
    self,       \* the fields of the Hexagons instance
    closes,     \* fl(cx + side_length * sin(2 pi)) = cx for the start x
    origin,     \* the start point (unit U) the vertex coordinates are relative to
    caller,     \* who runs _side_by_side: create_hexagons_gdf or _lower_side_by_side
    hexagons,   \* the local list hexagons of _side_by_side
    x_off,      \* the local x_off of _side_by_side
    sbs_polys,  \* the local sbs_polys of create_hexagons_gdf
    made,       \* polygons constructed by _regular_hexagon since the call began
    h_vertices, \* the local list h_vertices of the last _regular_hexagon
    outcome,    \* how the last call or read ended
    result,     \* the value it returned
    history,    \* what each finished read of create_hexagons_gdf ended with
    base_corner, \* the local base_corner of the last _fit (0 before any)
    upper_polys, \* the list upper_polys given to _fitting
    lower_polys, \* the list lower_polys given to _fitting
    base_row,    \* the list given to _fit as base_hexagons, after the call
    shift_row,   \* the list given to _fit as shift_hexagons, after the call
    lsbs_polys   \* the local lsbs_polys of create_hexagons_gdf

\* The variables the building of the first row does not assign.
fit_vars == <<base_corner, upper_polys, lower_polys, base_row, shift_row,
              lsbs_polys>>

vars == <<pc, call, args, self, closes, origin, caller, hexagons, x_off,
          sbs_polys, made, h_vertices, outcome, result, history,
          base_corner, upper_polys, lower_polys, base_row, shift_row,
          lsbs_polys>>

NoArgs == [hectare |-> 1, x_min |-> 0, y_min |-> 0, x_max |-> 0, y_max |-> 0,
           margin |-> 0, base_hexagons |-> <<>>, shift_hexagons |-> <<>>,
           upper_polys |-> <<>>, lower_polys |-> <<>>]
NoSelf == [_hectare |-> 1, _square_metre |-> 1, x_min |-> 0, y_min |-> 0,
           x_max |-> 0, y_max |-> 0]

Init ==
    /\ pc = "idle"
    /\ call = None
    /\ args = NoArgs
    /\ self = NoSelf
    /\ closes = TRUE
    /\ origin = [x |-> 0, y |-> 0]
    /\ caller = None
    /\ hexagons = <<>>
    /\ x_off = 0
    /\ sbs_polys = <<>>
    /\ made = 0
    /\ h_vertices = <<>>
    /\ outcome = None
    /\ result = None
    /\ history = <<>>
    /\ base_corner = 0
    /\ upper_polys = <<>>
    /\ lower_polys = <<>>
    /\ base_row = <<>>
    /\ shift_row = <<>>
    /\ lsbs_polys = <<>>

\* ----------------------------------------------------------- Hexagons.__init__
\* Mutant of _add_margin: the lower bounds are moved up by the margin.
_add_margin_inward(f, margin) ==
    [f EXCEPT !.x_min = @ + margin,
              !.y_min = @ + margin,
              !.x_max = @ + margin,
              !.y_max = @ + margin]

\* _add_margin(margin)
_add_margin(f, margin) ==
    [f EXCEPT !.x_min = @ + (margin * (-1)),
              !.y_min = @ + (margin * (-1)),
              !.x_max = @ + margin,
              !.y_max = @ + margin]

\* Hexagons(hectare, x_min, y_min, x_max, y_max, margin): the fields after
\* __init__; the margin is added only if 0 < margin.
__init__(hectare, x_min, y_min, x_max, y_max, margin) ==
    LET f == [_hectare |-> hectare,
              _square_metre |-> hectare * 10000,
              x_min |-> x_min, y_min |-> y_min,
              x_max |-> x_max, y_max |-> y_max]
    IN IF 0 < margin THEN _add_margin(f, margin) ELSE f

\* The floating-point fact `closes` is open only where the residue can show:
\* with side_length = 0 the seventh point is the centre itself.
ClosesFor(sq) ==
    IF sq < 0 \/ side_length(sq) = 0 THEN {TRUE} ELSE BOOLEAN

\* --------------------------------------------------------- regular_hexagon
\* regular_hexagon(hectare, center_x, center_y):
\*   hxgs = Hexagons(hectare, None, None, None, None)
\*   return hxgs._regular_hexagon(center_x, center_y)
\* math.sqrt of a negative _square_metre raises ValueError.
regular_hexagon(hectare, center_x, center_y, fl) ==
    /\ pc = "idle"
    /\ fl \in ClosesFor(hectare * 10000)
    /\ call' = "regular_hexagon"
    /\ args' = [NoArgs EXCEPT !.hectare = hectare]
    /\ self' = [NoSelf EXCEPT !._hectare = hectare,
                              !._square_metre = hectare * 10000]
    /\ closes' = fl
    /\ origin' = [x |-> center_x, y |-> center_y]
    /\ IF hectare * 10000 < 0
       THEN /\ outcome' = "ValueError"
            /\ result' = None
            /\ made' = 0
            /\ h_vertices' = <<>>
       ELSE /\ outcome' = "returned"
            /\ result' = _regular_hexagon(0, 0, hectare * 10000, fl)
            /\ made' = 1
            /\ h_vertices' = HVertices(0, 0, side_length(hectare * 10000), fl)
    /\ pc' = "done"
    /\ UNCHANGED <<caller, hexagons, x_off, sbs_polys, history>>
    /\ UNCHANGED fit_vars

\* ------------------------------------------------------ regular_hexagon_gdf
\* regular_hexagon_gdf(hectare, geometry, margin), up to the read of the
\* property:  box = list(geometry.bounds); box.append(margin)
\*            hxgs = Hexagons(hectare, *box)
regular_hexagon_gdf(hectare, x_min, y_min, x_max, y_max, margin, fl) ==
    /\ pc = "idle"
    /\ fl \in ClosesFor(hectare * 10000)
    /\ call' = "regular_hexagon_gdf"
    /\ args' = [NoArgs EXCEPT !.hectare = hectare,
                              !.x_min = x_min, !.y_min = y_min,
                              !.x_max = x_max, !.y_max = y_max,
                              !.margin = margin]
    /\ self' = __init__(hectare, x_min, y_min, x_max, y_max, margin)
    /\ closes' = fl
    /\ pc' = "created"
    /\ UNCHANGED <<origin, caller, hexagons, x_off, sbs_polys, made,
                   h_vertices, outcome, result, history>>
    /\ UNCHANGED fit_vars

\* How a read of create_hexagons_gdf ends: the outcome and the value are
\* recorded and the control returns to the caller of the property.
EndRead(how, value) ==
    /\ outcome' = how
    /\ result' = value
    /\ history' = Append(history, [outcome |-> how, result |-> value])
    /\ pc' = "done"

\* Lines 165-167 of _side_by_side(start_x, start_y, end_x), entered by `who`:
\*   hexagon = self._regular_hexagon(start_x, start_y)
\*   x_off = self._sbs_x_off(hexagon); hexagons = [hexagon]
_side_by_side_enter(who) ==
    IF self._square_metre < 0
    THEN /\ EndRead("ValueError", None)
         /\ UNCHANGED <<caller, hexagons, x_off, made, h_vertices>>
    ELSE LET hexagon == _regular_hexagon(0, 0, self._square_metre, closes)
         IN /\ hexagons' = <<hexagon>>
            /\ x_off' = _sbs_x_off(hexagon)
            /\ made' = made + 1
            /\ h_vertices' = HVertices(0, 0, side_length(self._square_metre),
                                       closes)
            /\ caller' = who
            /\ pc' = "sbs"
            /\ UNCHANGED <<outcome, result, history>>

\* The property create_hexagons_gdf is read (the first time by
\* regular_hexagon_gdf, again by a holder of the instance); line 352:
\*   sbs_polys = self._side_by_side(self.x_min, self.y_max, self.x_max)
create_hexagons_gdf ==
    /\ call = "regular_hexagon_gdf"
    /\ \/ pc = "created"
       \/ pc = "done" /\ Len(history) < MaxReads
    /\ origin' = [x |-> self.x_min, y |-> self.y_max]
    /\ sbs_polys' = <<>>
    /\ _side_by_side_enter("create_hexagons_gdf")
    /\ UNCHANGED <<call, args, self, closes>>
    /\ UNCHANGED fit_vars

\* One turn of the loop of _side_by_side (lines 168-173):
\*   shift_hexagon = translate(hexagons[-1], x_off)
\*   x_max = self.__calc_x_max(shift_hexagon); hexagons.append(shift_hexagon)
\*   if end_x < x_max: break
_side_by_side_loop ==
    /\ pc = "sbs"
    /\ Len(hexagons) < MaxRowLen
    /\ LET shift_hexagon == translate(hexagons[Len(hexagons)], x_off, 0)
           x_max == __calc_x_max(shift_hexagon)
       IN /\ hexagons' = Append(hexagons, shift_hexagon)
          /\ pc' = IF BoxLtX(self.x_max - origin.x, x_max)
                   THEN "sbs_return" ELSE "sbs"
    /\ UNCHANGED <<call, args, self, closes, origin, caller, x_off, sbs_polys,
                   made, h_vertices, outcome, result, history>>
    /\ UNCHANGED fit_vars

\* _side_by_side returns to create_hexagons_gdf (line 352), which goes on to
\* line 354, lsbs_polys = self._lower_side_by_side(...), whose line 205 is
\*   hexagons = self._side_by_side(start_x, start_y, end_x)
_side_by_side_return ==
    /\ pc = "sbs_return"
    /\ caller = "create_hexagons_gdf"
    /\ sbs_polys' = hexagons
    /\ _side_by_side_enter("_lower_side_by_side")
    /\ UNCHANGED <<call, args, self, closes, origin>>
    /\ UNCHANGED fit_vars

\* _side_by_side returns to _lower_side_by_side (line 205), which goes on to
\* line 206, x_off = self._lsbs_x_off(hexagons[0]):
\*   points = geom_disassembly(poly, 'point')
\*   trg = shapely.MultiPoint(points[: 2]).centroid
\* The read returns None and the slice raises TypeError, which nothing catches.
_lower_side_by_side ==
    /\ pc = "sbs_return"
    /\ caller = "_lower_side_by_side"
    /\ LET points == geom_disassembly(hexagons[1], PointRequest)
       IN /\ ~Subscriptable(points)
          /\ EndRead("TypeError", None)
    /\ UNCHANGED <<call, args, self, closes, origin, caller, hexagons, x_off,
                   sbs_polys, made, h_vertices>>
    /\ UNCHANGED fit_vars

\* ------------------------------------------------------------------ _fit
\* How a call ends: it returns a value or raises an exception.
Return(value) == [outcome |-> "returned", result |-> value]
Raise(exception) == [outcome |-> exception, result |-> None]

\* Mutant of BaseCorner: corner 4 when the base row is at least as long as
\* the shift row.
BaseCornerAtLeast(base_hexagons, shift_hexagons) ==
    IF Len(base_hexagons) >= Len(shift_hexagons) THEN 4 ELSE 2

\* Lines 242-245 of _fit:
\*   if len(base_hexagons) <= len(shift_hexagons): base_corner = 4
\*   else: base_corner = 2
BaseCorner(base_hexagons, shift_hexagons) ==
    IF Len(base_hexagons) <= Len(shift_hexagons) THEN 4 ELSE 2

\* list[-1]
Last(list) == list[Len(list)]

\* The while loop of _fit (lines 247-263), from the state of its locals:
\* a pair is popped from both rows while both have elements, then the shift
\* row alone against result_hexagons[-1]; each vertex read is subscripted,
\* which raises TypeError for None, and result_hexagons[-1] raises
\* IndexError for an empty list.
\* Mutant of deepcopy: no copy is made, the local is the caller's list.
no_copy(list, local) == local

\* copy.deepcopy (lines 240-241): what the caller's list is once the local
\* made from it has become `local`; the pops act on the copy.
deepcopy(list, local) == list

\* The loop ended as `end` with these locals.
FitEnd(end, base_hexagons, shift_hexagons) ==
    [outcome |-> end.outcome, result |-> end.result,
     base_hexagons |-> base_hexagons, shift_hexagons |-> shift_hexagons]

RECURSIVE _fit_while(_, _, _, _)
_fit_while(base_hexagons, shift_hexagons, base_corner_, result_hexagons) ==
    IF 1 <= Len(shift_hexagons) /\ 1 <= Len(base_hexagons)
    THEN LET b_hexg == Head(base_hexagons)
             s_hexg == Head(shift_hexagons)
             b_points == geom_disassembly(b_hexg, PointRequest)
             s_points == geom_disassembly(s_hexg, PointRequest)
         IN IF ~Subscriptable(b_points) \/ ~Subscriptable(s_points)
            THEN FitEnd(Raise("TypeError"), Tail(base_hexagons),
                        Tail(shift_hexagons))
            ELSE LET base_pt == b_points[base_corner_ + 1]
                     shift_pt == s_points[1]
                     r_hexg == translate(s_hexg, base_pt.x - shift_pt.x,
                                         base_pt.y - shift_pt.y)
                 IN _fit_while(Tail(base_hexagons), Tail(shift_hexagons),
                               base_corner_, Append(result_hexagons, r_hexg))
    ELSE IF 1 <= Len(shift_hexagons)
    THEN IF Len(result_hexagons) = 0
         THEN FitEnd(Raise("IndexError"), base_hexagons, shift_hexagons)
         ELSE LET b_hexg == Last(result_hexagons)
                  s_hexg == Head(shift_hexagons)
                  b_points == geom_disassembly(b_hexg, PointRequest)
                  s_points == geom_disassembly(s_hexg, PointRequest)
              IN IF ~Subscriptable(b_points) \/ ~Subscriptable(s_points)
                 THEN FitEnd(Raise("TypeError"), base_hexagons,
                             Tail(shift_hexagons))
                 ELSE LET base_pt == b_points[2]
                          shift_pt == s_points[6]
                          r_hexg == translate(s_hexg, base_pt.x - shift_pt.x,
                                              base_pt.y - shift_pt.y)
                      IN _fit_while(base_hexagons, Tail(shift_hexagons),
                                    base_corner_,
                                    Append(result_hexagons, r_hexg))
    ELSE FitEnd(Return(result_hexagons), base_hexagons, shift_hexagons)

\* _fit(base_hexagons, shift_hexagons): the rows are deep copies, the
\* corner is chosen and the loop runs from an empty result_hexagons; how it
\* ended, and the two lists of the caller as they are after it.
_fit(base_hexagons, shift_hexagons) ==
    LET end == _fit_while(base_hexagons, shift_hexagons,
                          BaseCorner(base_hexagons, shift_hexagons), <<>>)
    IN [end EXCEPT !.base_hexagons = deepcopy(base_hexagons, @),
                   !.shift_hexagons = deepcopy(shift_hexagons, @)]

\* -------------------------------------------------------------- _fitting
\* Lines 270-273 of _fitting, on its locals st:
\*   if 1 <= len(lower_polys):
\*       lowers = lower_polys.pop(0)
\*       r_lowers = self._fit(result_uppers[-1], lowers)
\*       result_lowers.append(r_lowers)
\* An exception of _fit ends _fitting (st.outcome).
_fitting_lower(st) ==
    IF 1 <= Len(st.lower_polys)
    THEN LET lowers == Head(st.lower_polys)
             r_lowers == _fit(Last(st.result_uppers), lowers)
         IN IF r_lowers.outcome # "returned"
            THEN [st EXCEPT !.lower_polys = Tail(@),
                            !.outcome = r_lowers.outcome]
            ELSE [st EXCEPT !.lower_polys = Tail(@),
                            !.result_lowers = Append(@, r_lowers.result)]
    ELSE st

\* Lines 274-277 of _fitting:
\*   if 1 <= len(upper_polys):
\*       uppers = upper_polys.pop(0)
\*       r_uppers = self._fit(result_lowers[-1], uppers)
\*       result_uppers.append(r_uppers)
\* result_lowers[-1] raises IndexError for an empty list.
_fitting_upper(st) ==
    IF 1 <= Len(st.upper_polys)
    THEN IF Len(st.result_lowers) = 0
         THEN [st EXCEPT !.upper_polys = Tail(@), !.outcome = "IndexError"]
         ELSE LET uppers == Head(st.upper_polys)
                  r_uppers == _fit(Last(st.result_lowers), uppers)
              IN IF r_uppers.outcome # "returned"
                 THEN [st EXCEPT !.upper_polys = Tail(@),
                                 !.outcome = r_uppers.outcome]
                 ELSE [st EXCEPT !.upper_polys = Tail(@),
                                 !.result_uppers = Append(@, r_uppers.result)]
    ELSE st

\* The while loop of _fitting (lines 269-279): a lower row, then an upper
\* row, until both lists are empty.
RECURSIVE _fitting_while(_)
_fitting_while(st) ==
    LET lo == _fitting_lower(st)
        up == IF lo.outcome = None THEN _fitting_upper(lo) ELSE lo
    IN IF up.outcome # None THEN up
       ELSE IF Len(up.upper_polys) = 0 /\ Len(up.lower_polys) = 0
            THEN [up EXCEPT !.outcome = "returned"]
            ELSE _fitting_while(up)

\* _fitting(upper_polys, lower_polys): result_uppers = [upper_polys.pop(0)]
\* raises IndexError for an empty upper_polys; the locals when it ends.
_fitting(uppers, lowers) ==
    IF Len(uppers) = 0
    THEN [upper_polys |-> uppers, lower_polys |-> lowers,
          result_uppers |-> <<>>, result_lowers |-> <<>>,
          outcome |-> "IndexError"]
    ELSE _fitting_while([upper_polys |-> Tail(uppers), lower_polys |-> lowers,
                         result_uppers |-> <<Head(uppers)>>,
                         result_lowers |-> <<>>, outcome |-> None])

\* -------------------------------------------------------- _sort_hexagons
\* SortedHexagons(hexagon_lst, rows_idx, cols_idx) with nothing emitted.
NoneSorted == [hexagon_lst |-> <<>>, rows_idx |-> <<>>, cols_idx |-> <<>>]

\* The for loop of lines 303-306 and of lines 310-313, from polygon i on:
\*   for i, poly in enumerate(polys):
\*       hexagon_lst.append(poly); rows_idx.append(row); cols_idx.append(i)
RECURSIVE Enumerate(_, _, _, _)
Enumerate(sorted, polys, row, i) ==
    IF i > Len(polys) THEN sorted
    ELSE Enumerate([hexagon_lst |-> Append(sorted.hexagon_lst, polys[i]),
                    rows_idx |-> Append(sorted.rows_idx, row),
                    cols_idx |-> Append(sorted.cols_idx, i - 1)],
                   polys, row, i + 1)

\* The while loop of _sort_hexagons (lines 301-319): an upper row is popped
\* and emitted with `row`, row += 1, a lower row is popped and emitted,
\* and unless both lists are empty row += 1 and the loop goes on.
RECURSIVE _sort_while(_, _, _, _)
_sort_while(uppers, lowers, row, sorted) ==
    LET has_upper == 1 <= Len(uppers)
        after_upper == IF has_upper THEN Enumerate(sorted, Head(uppers), row, 1)
                       ELSE sorted
        uppers_left == IF has_upper THEN Tail(uppers) ELSE uppers
        lower_row == row + 1
        has_lower == 1 <= Len(lowers)
        after_lower == IF has_lower
                       THEN Enumerate(after_upper, Head(lowers), lower_row, 1)
                       ELSE after_upper
        lowers_left == IF has_lower THEN Tail(lowers) ELSE lowers
    IN IF Len(uppers_left) = 0 /\ Len(lowers_left) = 0
       THEN after_lower
       ELSE _sort_while(uppers_left, lowers_left, lower_row + 1, after_lower)

\* _sort_hexagons(upper_polys, lower_polys): line 297 replaces the two
\* lists by the result of _fitting, whose exception ends the call; then the
\* loop runs from row = 0.
_sort_hexagons(uppers, lowers) ==
    LET sort(fitted) ==
            IF fitted.outcome # "returned"
            THEN Raise(fitted.outcome) @@
                 [upper_polys |-> fitted.upper_polys,
                  lower_polys |-> fitted.lower_polys]
            ELSE Return(_sort_while(fitted.result_uppers,
                                    fitted.result_lowers, 0, NoneSorted)) @@
                 [upper_polys |-> fitted.upper_polys,
                  lower_polys |-> fitted.lower_polys]
    IN sort(_fitting(uppers, lowers))

\* --------------------------------------------- _fit and _fitting on their own
\* The rows given to _fit and _fitting when a holder of an instance calls
\* them: n hexagons one _sbs_x_off apart, the first one moved by (dx, dy)
\* from the start point.
Row(hexagon, n, dx, dy) ==
    [i \in 1..n |-> translate(hexagon, dx + (i - 1) * _sbs_x_off(hexagon), dy)]

\* Upper row k (from 0) of n hexagons and lower row k of n hexagons: each
\* family 3 side_length below its row before, the lower family 1.5
\* side_length below the upper one and half a hexagon to the left.
UpperRow(hexagon, side, n, k) == Row(hexagon, n, 0, (-6) * side * k)
LowerRow(hexagon, side, n, k) == Row(hexagon, n, -side, (-6) * side * k - 3 * side)

\* The hectares _regular_hexagon makes a polygon for.
DrawnHectares == {h \in Hectares : h >= 0}

\* hxgs._fit(base_hexagons, shift_hexagons) called on an instance: an upper
\* row of nb hexagons as base and a lower row of ns hexagons as shift.
fit_call(hectare, fl, nb, ns) ==
    /\ pc = "idle"
    /\ fl \in ClosesFor(hectare * 10000)
    /\ LET hexagon == _regular_hexagon(0, 0, hectare * 10000, fl)
           side == side_length(hectare * 10000)
           base_hexagons == UpperRow(hexagon, side, nb, 0)
           shift_hexagons == LowerRow(hexagon, side, ns, 0)
           ended == _fit(base_hexagons, shift_hexagons)
       IN /\ args' = [NoArgs EXCEPT !.hectare = hectare,
                                    !.base_hexagons = base_hexagons,
                                    !.shift_hexagons = shift_hexagons]
          /\ base_corner' = BaseCorner(base_hexagons, shift_hexagons)
          /\ base_row' = ended.base_hexagons
          /\ shift_row' = ended.shift_hexagons
          /\ outcome' = ended.outcome
          /\ result' = ended.result
    /\ call' = "_fit"
    /\ self' = [NoSelf EXCEPT !._hectare = hectare,
                              !._square_metre = hectare * 10000]
    /\ closes' = fl
    /\ pc' = "done"
    /\ UNCHANGED <<origin, caller, hexagons, x_off, sbs_polys, made,
                   h_vertices, history, upper_polys, lower_polys,
                   lsbs_polys>>

\* hxgs._fitting(upper_polys, lower_polys) called on an instance: nu upper
\* rows of lu hexagons and nl lower rows of ll hexagons.
fitting_call(hectare, fl, nu, lu, nl, ll) ==
    /\ pc = "idle"
    /\ fl \in ClosesFor(hectare * 10000)
    /\ LET hexagon == _regular_hexagon(0, 0, hectare * 10000, fl)
           side == side_length(hectare * 10000)
           uppers == [k \in 1..nu |-> UpperRow(hexagon, side, lu, k - 1)]
           lowers == [k \in 1..nl |-> LowerRow(hexagon, side, ll, k - 1)]
           ended == _fitting(uppers, lowers)
       IN /\ args' = [NoArgs EXCEPT !.hectare = hectare,
                                    !.upper_polys = uppers,
                                    !.lower_polys = lowers]
          /\ upper_polys' = ended.upper_polys
          /\ lower_polys' = ended.lower_polys
          /\ outcome' = ended.outcome
          /\ result' = IF ended.outcome = "returned"
                       THEN <<ended.result_uppers, ended.result_lowers>>
                       ELSE None
    /\ call' = "_fitting"
    /\ self' = [NoSelf EXCEPT !._hectare = hectare,
                              !._square_metre = hectare * 10000]
    /\ closes' = fl
    /\ pc' = "done"
    /\ UNCHANGED <<origin, caller, hexagons, x_off, sbs_polys, made,
                   h_vertices, history, base_corner, base_row, shift_row,
                   lsbs_polys>>

\* hxgs._sort_hexagons(upper_polys, lower_polys) called on an instance: nu
\* upper rows of lu hexagons and nl lower rows of ll hexagons.
sort_hexagons_call(hectare, fl, nu, lu, nl, ll) ==
    /\ pc = "idle"
    /\ fl \in ClosesFor(hectare * 10000)
    /\ LET hexagon == _regular_hexagon(0, 0, hectare * 10000, fl)
           side == side_length(hectare * 10000)
           uppers == [k \in 1..nu |-> UpperRow(hexagon, side, lu, k - 1)]
           lowers == [k \in 1..nl |-> LowerRow(hexagon, side, ll, k - 1)]
       IN /\ args' = [NoArgs EXCEPT !.hectare = hectare,
                                    !.upper_polys = uppers,
                                    !.lower_polys = lowers]
          /\ \E ended \in {_sort_hexagons(uppers, lowers)} :
                /\ upper_polys' = ended.upper_polys
                /\ lower_polys' = ended.lower_polys
                /\ outcome' = ended.outcome
                /\ result' = ended.result
    /\ call' = "_sort_hexagons"
    /\ self' = [NoSelf EXCEPT !._hectare = hectare,
                              !._square_metre = hectare * 10000]
    /\ closes' = fl
    /\ pc' = "done"
    /\ UNCHANGED <<origin, caller, hexagons, x_off, sbs_polys, made,
                   h_vertices, history, base_corner, base_row, shift_row,
                   lsbs_polys>>

Next ==
    \/ \E h \in Hectares, cx \in Coords, cy \in Coords, fl \in BOOLEAN :
          regular_hexagon(h, cx, cy, fl)
    \/ \E h \in Hectares, x0 \in Coords, y0 \in Coords, x1 \in Coords,
          y1 \in Coords, m \in Margins, fl \in BOOLEAN :
          regular_hexagon_gdf(h, x0, y0, x1, y1, m, fl)
    \/ create_hexagons_gdf
    \/ _side_by_side_loop
    \/ _side_by_side_return
    \/ _lower_side_by_side
    \/ \E h \in DrawnHectares, fl \in BOOLEAN, nb \in 0..MaxFitLen,
          ns \in 0..MaxFitLen :
          fit_call(h, fl, nb, ns)
    \/ \E h \in DrawnHectares, fl \in BOOLEAN, nu \in 0..MaxRows,
          lu \in 0..MaxFitLen, nl \in 0..MaxRows, ll \in 0..MaxFitLen :
          fitting_call(h, fl, nu, lu, nl, ll)
    \/ \E h \in DrawnHectares, fl \in BOOLEAN, nu \in 0..MaxRows,
          lu \in 0..MaxFitLen, nl \in 0..MaxRows, ll \in 0..MaxFitLen :
          sort_hexagons_call(h, fl, nu, lu, nl, ll)

Spec == Init /\ [][Next]_vars

\* ==================================================================== claims
\* The call is the full-tessellation entry point with arguments the
\* specification calls valid.
ValidCall ==
    /\ call = "regular_hexagon_gdf"
    /\ args.hectare > 0
    /\ args.margin >= 0
    /\ args.x_min < args.x_max
    /\ args.y_min < args.y_max

\* A read of create_hexagons_gdf has ended (returned or raised).
ReadDone == pc = "done" /\ call = "regular_hexagon_gdf"

\* The read ended by returning a tessellation: a sequence of cells
\* [geometry, rows_idx, cols_idx, unique_id].
Returned == outcome = "returned"

\* side_length of the instance
Side == side_length(self._square_metre)

\* The vertex coordinates of all cells of a tessellation.
VertexXs(cells) ==
    {cells[i].geometry[j].x : i \in DOMAIN cells, j \in 1..Len(SinT)}
VertexYs(cells) ==
    {cells[i].geometry[j].y : i \in DOMAIN cells, j \in 1..Len(SinT)}

\* The centre of a cell: its vertex 0 lies side_length above it.
CentreX(cell) == cell.geometry[1].x
CentreY(cell) == cell.geometry[1].y - 2 * Side

\* px * sqrt(3)/2 <= d and px * sqrt(3)/2 >= d, vertex x against box distance.
XLeBox(px, d) == ~BoxLtX(d, px)
XGeBox(px, d) ==
    IF px >= 0 THEN d <= 0 \/ 4 * d * d <= 3 * px * px
               ELSE d <= 0 /\ 4 * d * d >= 3 * px * px

\* The bounding boxes of the cells cover the (post-margin) box.
Covers(cells) ==
    /\ \E px \in VertexXs(cells) : XLeBox(px, self.x_min - origin.x)
    /\ \E px \in VertexXs(cells) : XGeBox(px, self.x_max - origin.x)
    /\ \E py \in VertexYs(cells) : py >= 2 * (self.y_max - origin.y)
    /\ \E py \in VertexYs(cells) : py <= 2 * (self.y_min - origin.y)

\* C1 (coverage): every read of create_hexagons_gdf on a valid box with
\* hectare > 0 returns a tessellation whose cells reach x_min on the left,
\* x_max on the right, y_max at the top and y_min at the bottom.
C1_Coverage ==
    (ValidCall /\ ReadDone) => (Returned /\ Covers(result))

\* The cells form a contiguous block of one honeycomb lattice: neighbours in
\* a row are one pitch (2 x-units per side) apart at equal y, consecutive
\* rows are 1.5 * side_length (3 y-units per side) apart and offset by half
\* a pitch, and no two distinct cells share a centre.
Honeycomb(cells) ==
    \A i \in DOMAIN cells : \A j \in DOMAIN cells :
        /\ (cells[i].rows_idx = cells[j].rows_idx
            /\ cells[j].cols_idx = cells[i].cols_idx + 1)
           => (/\ CentreX(cells[j]) = CentreX(cells[i]) + 2 * Side
               /\ CentreY(cells[j]) = CentreY(cells[i]))
        /\ (cells[j].rows_idx = cells[i].rows_idx + 1)
           => (/\ CentreY(cells[j]) = CentreY(cells[i]) - 3 * Side
               /\ \E n \in -MaxRowLen..MaxRowLen :
                     CentreX(cells[j]) - CentreX(cells[i]) = Side + 2 * n * Side)
        /\ (i # j) => (CentreX(cells[i]) # CentreX(cells[j])
                       \/ CentreY(cells[i]) # CentreY(cells[j]))

\* C2 (gap-free, non-overlapping): every read on a valid box returns cells
\* that form a contiguous block of one honeycomb lattice.
C2_GapFree ==
    (ValidCall /\ ReadDone) => (Returned /\ Honeycomb(result))

\* The corners of a cell, as a set of points.
Corners(cell) ==
    {[x |-> cell.geometry[k].x, y |-> cell.geometry[k].y] : k \in 1..6}

\* Two cells of consecutive rows that the layout makes neighbours: their
\* centres are half a pitch apart in x.
Interlock(a, b) ==
    /\ abs(a.rows_idx - b.rows_idx) = 1
    /\ abs(CentreX(a) - CentreX(b)) <= Side

\* C3 (adjacency): in the tessellation a read returns, two interlocking cells
\* of consecutive rows share boundary vertices exactly (an edge: two corners).
C3_Adjacency ==
    (ValidCall /\ ReadDone) =>
        /\ Returned
        /\ \A i \in DOMAIN result : \A j \in DOMAIN result :
              Interlock(result[i], result[j]) =>
                  Cardinality(Corners(result[i]) \cap Corners(result[j])) = 2

\* C4 (uniqueness): in the tessellation a read returns (any box, hectare > 0,
\* any margin), no two cells have the same (rows_idx, cols_idx) and no two
\* have the same unique_id.
C4_Uniqueness ==
    (call = "regular_hexagon_gdf" /\ args.hectare > 0 /\ pc = "done") =>
        /\ Returned
        /\ \A i \in DOMAIN result : \A j \in DOMAIN result :
              (i # j) =>
                  /\ <<result[i].rows_idx, result[i].cols_idx>>
                        # <<result[j].rows_idx, result[j].cols_idx>>
                  /\ result[i].unique_id # result[j].unique_id

\* C5 (bounded placement): every cell of the tessellation a read returns on
\* a valid box has its centre within side_length of the box in x and in y.
\* (x: cx * sqrt(3)/2 against a distance in U; y: cy / 2 against one.)
C5_BoundedPlacement ==
    (ValidCall /\ ReadDone) =>
        /\ Returned
        /\ \A i \in DOMAIN result :
              /\ XGeBox(CentreX(result[i]), self.x_min - Side - origin.x)
              /\ XLeBox(CentreX(result[i]), self.x_max + Side - origin.x)
              /\ CentreY(result[i]) >= 2 * (self.y_min - Side - origin.y)
              /\ CentreY(result[i]) <= 2 * (self.y_max + Side - origin.y)

\* The rightmost vertex x of the newest hexagon of the row being built.
NewestXMax(row) == __calc_x_max(row[Len(row)])

\* C6 (termination): for hectare > 0, however small, and a valid box, each
\* turn of the RowBuilder loop of _side_by_side strictly increases the
\* rightmost x of the newest hexagon (so the loop passes end_x after finitely
\* many turns).
C6_RowBuilderProgress ==
    [][(ValidCall /\ pc = "sbs" /\ Len(hexagons') = Len(hexagons) + 1)
          => NewestXMax(hexagons') > NewestXMax(hexagons)]_vars

\* The arguments of the full-tessellation call are ones the specification
\* rejects: a negative margin or a box that is empty in x or in y.
InvalidBox ==
    /\ call = "regular_hexagon_gdf"
    /\ \/ args.margin < 0
       \/ args.x_min >= args.x_max
       \/ args.y_min >= args.y_max

\* The error outcomes that report a bad argument (Python's ValueError stands
\* for the specification's InvalidArgument).
ArgumentErrors == {"InvalidArgument", "ValueError"}

\* C7 (invalid box rejected): a call of regular_hexagon_gdf with margin < 0,
\* x_min >= x_max or y_min >= y_max constructs no hexagon, and when it ends
\* it ends in an argument error and returns no tessellation.
C7_InvalidBoxRejected ==
    InvalidBox =>
        /\ made = 0
        /\ pc = "done" => (outcome \in ArgumentErrors /\ result = None)

\* C8 (non-positive area rejected): with hectare <= 0 (0 or negative), a call
\* of regular_hexagon or regular_hexagon_gdf that has ended has ended in an
\* argument error and has returned no hexagon and no tessellation.
C8_NonPositiveRejected ==
    (call # None /\ args.hectare <= 0 /\ pc = "done") =>
        (outcome \in ArgumentErrors /\ result = None)

\* C9 (determinism and purity): two reads of create_hexagons_gdf on the same
\* instance (valid box, hectare > 0) both return a tessellation, the two
\* tessellations are the same sequence of cells, and the fields of the
\* instance are as the constructor left them.
C9_Deterministic ==
    (ValidCall /\ Len(history) = MaxReads) =>
        /\ \A n \in 1..MaxReads : history[n].outcome = "returned"
        /\ \A n \in 1..MaxReads : history[n].result = history[1].result
        /\ self = __init__(args.hectare, args.x_min, args.y_min,
                               args.x_max, args.y_max, args.margin)

\* _regular_hexagon has returned a polygon to regular_hexagon.
HexagonReturned ==
    call = "regular_hexagon" /\ pc = "done" /\ outcome = "returned"

\* Point k (from 0) of h_vertices lies at distance side_length from the
\* centre (0, 0): (x sqrt(3)/2)^2 + (y/2)^2 = side^2.
OnCircle(pt) == 3 * pt.x * pt.x + pt.y * pt.y = 4 * Side * Side

\* Two points are side_length apart (the chord of 60 degrees).
OneSideApart(p, q) ==
    3 * (p.x - q.x) * (p.x - q.x) + (p.y - q.y) * (p.y - q.y) = 4 * Side * Side

\* The turn from p to q around the centre is clockwise (or degenerate when
\* side_length = 0): the cross product p x q is negative.
Clockwise(p, q) ==
    IF Side = 0 THEN p.x = q.x /\ p.y = q.y ELSE p.x * q.y - p.y * q.x < 0

\* The layout the claim describes for the first six points: point 0 directly
\* above the centre, 1 and 2 the right flank, 3 directly below, 4 and 5 the
\* left flank, each on the circle of radius side_length, 60 degrees on from
\* the one before, clockwise (all six at the centre when side_length = 0).
SixCorners(pts) ==
    /\ pts[1].x = 0 /\ pts[1].y = 2 * Side
    /\ pts[2].x = Side /\ pts[3].x = Side
    /\ pts[2].y > pts[3].y \/ Side = 0
    /\ pts[4].x = 0 /\ pts[4].y = -2 * Side
    /\ pts[5].x = -Side /\ pts[6].x = -Side
    /\ pts[5].y < pts[6].y \/ Side = 0
    /\ \A k \in 1..6 : OnCircle(pts[k])
    /\ \A k \in 1..5 : OneSideApart(pts[k], pts[k + 1])
    /\ \A k \in 1..5 : Clockwise(pts[k], pts[k + 1])

RECURSIVE Shoelace(_, _)
Shoelace(ring, i) ==
    IF i >= Len(ring) THEN 0
    ELSE ring[i].x * ring[i + 1].y - ring[i + 1].x * ring[i].y
         + Shoelace(ring, i + 1)

\* The squared length of edge i of a ring, in units of U^2 / 4.
EdgeSq(ring, i) ==
    3 * (ring[i + 1].x - ring[i].x) * (ring[i + 1].x - ring[i].x)
    + (ring[i + 1].y - ring[i].y) * (ring[i + 1].y - ring[i].y)

\* |sqrt(n) - sqrt(m)| <= 1e-6 * sqrt(m) for naturals n, m:
\* m (1 - 1e-6)^2 <= n <= m (1 + 1e-6)^2, in integer arithmetic.
WithinPpm(n, m) ==
    IF n >= m
    THEN n - m <= (2 * m + m \div 1000000) \div 1000000
    ELSE m - n <= (2 * m - (m + 999999) \div 1000000) \div 1000000

\* The area of the ring against the requested area: the ring has the area
\* |Shoelace| sqrt(3)/8 U^2 = 5 |Shoelace| sqrt(3) * 2500 in the unit of
\* _square_metre, compared (squared) with _square_metre.
AreaWithinTolerance(ring, sq) ==
    LET s == abs(Shoelace(ring, 1))
        q == sq \div 2500
    IN WithinPpm(75 * s * s, q * q)

\* The six edges of the ring are equal within the tolerance.
EdgesWithinTolerance(ring) ==
    \A i \in 1..6 : WithinPpm(EdgeSq(ring, i), EdgeSq(ring, 1))

\* regular_hexagon was called with hectare > 0 and has ended.
PositiveHexagonCall ==
    call = "regular_hexagon" /\ pc = "done" /\ args.hectare > 0

NearestMultiple(k, sq) ==
    LET q == sq \div 2500
    IN /\ (k > 0 => 675 * (2*k - 1) * (2*k - 1) * (2*k - 1) * (2*k - 1) <= q * q)
       /\ q * q < 675 * (2*k + 1) * (2*k + 1) * (2*k + 1) * (2*k + 1)

MarginCall ==
    call = "regular_hexagon_gdf" /\ pc # "idle" /\ args.margin >= 0

\* The box of the instance is the box of the arguments expanded by the
\* margin on its four sides.
ExpandedBox ==
    /\ self.x_min = args.x_min - args.margin
    /\ self.y_min = args.y_min - args.margin
    /\ self.x_max = args.x_max + args.margin
    /\ self.y_max = args.y_max + args.margin

\* A row is being built or has been built: the start point of the rows has
\* been taken from the box.
RowStarted == pc \in {"sbs", "sbs_return", "done"}

\* C12 (margin expansion): for every margin >= 0 the box the tessellation
\* uses is exactly (x_min - margin, y_min - margin, x_max + margin,
\* y_max + margin), unchanged for margin = 0; it is in place from the
\* construction on, through every row and every read (applied once), and the
\* rows start at its upper left corner.
C12_MarginExpansion ==
    MarginCall =>
        /\ ExpandedBox
        /\ args.margin = 0 =>
              /\ self.x_min = args.x_min /\ self.y_min = args.y_min
              /\ self.x_max = args.x_max /\ self.y_max = args.y_max
        /\ RowStarted =>
              /\ origin.x = args.x_min - args.margin
              /\ origin.y = args.y_max + args.margin

\* C12 witness: with a positive margin, the first row of the second read of
\* the tessellation has been built on the expanded box.
C12_Witness ==
    /\ MarginCall
    /\ args.margin > 0
    /\ Len(history) = 1
    /\ pc = "sbs_return"
    /\ ExpandedBox

\* ------------------------------------------------------------------- C13
\* C13 (minimum rows and non-negative indices): for every valid box and
\* hectare > 0 the read returns a tessellation with more than one row, whose
\* largest rows_idx is at least 2 and whose cells all have rows_idx >= 0
\* and cols_idx >= 0.
C13_MinimumRows ==
    (ValidCall /\ ReadDone) =>
        /\ Returned
        /\ \E i \in DOMAIN result : result[i].rows_idx >= 2
        /\ Cardinality({result[i].rows_idx : i \in DOMAIN result}) > 1
        /\ \A i \in DOMAIN result :
              result[i].rows_idx >= 0 /\ result[i].cols_idx >= 0

\* ------------------------------------------------------------------- C14
\* _fit was called on its own and has ended.
FitEnded == call = "_fit" /\ pc = "done"

\* _fit took a pair: both rows had a hexagon.
PairTaken ==
    FitEnded /\ Len(args.base_hexagons) >= 1 /\ Len(args.shift_hexagons) >= 1

PureTranslate(p, q) ==
    /\ Len(p) = Len(q)
    /\ \A j \in DOMAIN p :
          /\ q[j].x - p[j].x = q[1].x - p[1].x
          /\ q[j].y - p[j].y = q[1].y - p[1].y

\* Two points coincide.
SamePoint(p, q) == p.x = q.x /\ p.y = q.y

\* C15 (fit snap postcondition): _fit on a non-empty base and shift returns
\* a row in which hexagon i is a pure translate of shift hexagon i; while
\* the base lasts its vertex 0 lies on the chosen corner of base hexagon i,
\* after that its vertex 5 lies on vertex 1 of the result hexagon before it.
C15_FitSnap ==
    PairTaken =>
        /\ outcome = "returned"
        /\ \A i \in DOMAIN result :
              /\ PureTranslate(args.shift_hexagons[i], result[i])
              /\ IF i <= Len(args.base_hexagons)
                 THEN SamePoint(result[i][1],
                                args.base_hexagons[i][base_corner + 1])
                 ELSE SamePoint(result[i][6], result[i - 1][2])

\* ------------------------------------------------------------------- C16
\* C16 (fit has no error outcome): for every base row and shift row, an
\* empty base with a non-empty shift and an empty shift included, _fit
\* returns a row; for an empty shift it returns the empty list.
C16_FitNeverRaises ==
    FitEnded =>
        /\ outcome = "returned"
        /\ Len(args.shift_hexagons) = 0 => result = <<>>

\* ------------------------------------------------------------------- C17
\* C17 (fit length): the result of _fit has exactly len(shift) hexagons,
\* whatever the length of base.
C17_FitLength ==
    FitEnded =>
        /\ outcome = "returned"
        /\ Len(result) = Len(args.shift_hexagons)

\* ------------------------------------------------------------------- C18
\* _fitting was called on its own, with a first upper row and as many lower
\* rows as upper rows or one fewer, and has ended.
FittingEnded ==
    /\ call = "_fitting" /\ pc = "done"
    /\ Len(args.upper_polys) >= 1
    /\ Len(args.upper_polys) - Len(args.lower_polys) \in {0, 1}

\* C18 (fitting pass order): _fitting returns uppers' and lowers' with
\* uppers'[0] = uppers[0], lowers'[i] = _fit(uppers'[i], lowers[i]) and
\* uppers'[i+1] = _fit(lowers'[i], uppers[i+1]), as many rows in each as it
\* was given.
C18_FittingPassOrder ==
    FittingEnded =>
        /\ outcome = "returned"
        /\ Len(result[1]) = Len(args.upper_polys)
        /\ Len(result[2]) = Len(args.lower_polys)
        /\ result[1][1] = args.upper_polys[1]
        /\ \A i \in DOMAIN result[2] :
              result[2][i] = _fit(result[1][i], args.lower_polys[i]).result
        /\ \A i \in 2..Len(result[1]) :
              result[1][i] = _fit(result[2][i - 1], args.upper_polys[i]).result

\* ------------------------------------------------------------------- C19
\* The cells of row r of a tessellation and the lowest y of their vertices.
RowYs(cells, r) ==
    {cells[i].geometry[j].y : i \in {n \in DOMAIN cells : cells[n].rows_idx = r},
                              j \in 1..Len(SinT)}
RowBelowBox(cells, r) ==
    \E py \in RowYs(cells, r) : py < 2 * (self.y_min - origin.y)

\* The rows the loop of create_hexagons_gdf appends: every row after the
\* first upper row (0) and the first lower row (1).
LoopRows(cells) == {cells[i].rows_idx : i \in DOMAIN cells} \ {0, 1}

\* C19 (GridAssembler stop rule): the read returns a tessellation in which
\* every loop-appended row is the row two before it moved down by
\* y_drop = -3 side_length, the last appended row is the only loop-appended
\* row whose lowest y is strictly below y_min, and the loop appended a row.
C19_GridStopRule ==
    (ValidCall /\ ReadDone) =>
        /\ Returned
        /\ LoopRows(result) # {}
        /\ \A r \in LoopRows(result) :
              /\ RowYs(result, r) = {py - 6 * Side : py \in RowYs(result, r - 2)}
              /\ RowBelowBox(result, r) <=> r = max(LoopRows(result))

\* ------------------------------------------------------------------- C20
\* Vertex x px lies strictly right of the box distance d: px sqrt(3)/2 > d.
RightOf(px, d) ==
    IF d < 0 THEN px >= 0 \/ 3 * px * px < 4 * d * d
             ELSE px > 0 /\ 3 * px * px > 4 * d * d

\* The rightmost vertex x of a hexagon.
Rightmost(poly) == max({poly[j].x : j \in DOMAIN poly})

\* end_x of the row being built, from its start point.
EndX == self.x_max - origin.x

\* C20 (RowBuilder stop rule): the row _side_by_side returns starts with a
\* hexagon centred at the start point (vertex 0 side_length above it, vertex
\* 3 side_length below), has at least 2 hexagons, ends with a hexagon whose
\* rightmost x is strictly greater than end_x, and has no translated hexagon
\* before the last with rightmost x > end_x; while the loop goes on, no
\* translated hexagon has rightmost x > end_x (reaching end_x does not stop
\* it).
C20_RowStopRule ==
    /\ pc = "sbs_return" =>
          /\ origin = [x |-> self.x_min, y |-> self.y_max]
          /\ hexagons[1][1].x = 0 /\ hexagons[1][1].y = 2 * Side
          /\ hexagons[1][4].x = 0 /\ hexagons[1][4].y = (-2) * Side
          /\ Len(hexagons) >= 2
          /\ RightOf(Rightmost(Last(hexagons)), EndX)
          /\ \A i \in 2..(Len(hexagons) - 1) :
                ~RightOf(Rightmost(hexagons[i]), EndX)
    /\ pc = "sbs" =>
          \A i \in 2..Len(hexagons) : ~RightOf(Rightmost(hexagons[i]), EndX)

\* C20 witness: _side_by_side returns a row of at least 3 proper hexagons:
\* one translated hexagon did not pass end_x and the last one did.
C20_Witness ==
    /\ pc = "sbs_return"
    /\ Side > 0
    /\ Len(hexagons) >= 3
    /\ ~RightOf(Rightmost(hexagons[2]), EndX)
    /\ RightOf(Rightmost(Last(hexagons)), EndX)

\* ------------------------------------------------------------------- C21
\* row_pitch: the horizontal distance between the right flank (vertex 1)
\* and the left flank (vertex 5) of a hexagon, the distance at which two
\* hexagons of a row touch.
RowPitch(poly) == abs(poly[2].x - poly[6].x)

\* A row of proper hexagons is being built or has been built.
RowOfHexagons == pc \in {"sbs", "sbs_return"} /\ Side > 0

\* C21 (shrunk pitch): in a row built by _side_by_side each hexagon is the
\* one before it translated by (p, 0) with p = row_pitch - row_pitch / 1e8,
\* strictly less than the touching distance row_pitch.
C21_ShrunkPitch ==
    RowOfHexagons =>
        /\ \A i \in 2..Len(hexagons) :
              hexagons[i] = translate(hexagons[i - 1], x_off, 0)
        /\ 100000000 * (RowPitch(hexagons[1]) - x_off) = RowPitch(hexagons[1])
        /\ x_off < RowPitch(hexagons[1])

\* ------------------------------------------------------------------- C22
\* _lower_side_by_side has ended, in a read of create_hexagons_gdf; its
\* local hexagons is the row _side_by_side gave it.
LowerRowEnded ==
    call = "regular_hexagon_gdf" /\ pc = "done"
    /\ caller = "_lower_side_by_side"

\* C22 (offset row vector): _lower_side_by_side returns a row that holds
\* every hexagon of the base row translated by (x_off, y_off), x_off half
\* the row pitch and y_off = -1.5 side_length, so that the top vertex of an
\* offset hexagon lies on the lower right flank vertex of its base hexagon.
C22_OffsetRowVector ==
    LowerRowEnded =>
        /\ outcome # "TypeError"
        /\ Len(lsbs_polys) = Len(hexagons) + 1
        /\ \A i \in DOMAIN hexagons :
              /\ \E dx \in 0..Side :
                    /\ 2 * dx = RowPitch(hexagons[1])
                    /\ lsbs_polys[i + 1] = translate(hexagons[i], dx, (-3) * Side)
              /\ SamePoint(lsbs_polys[i + 1][1], hexagons[i][3])

\* ------------------------------------------------------------------- C23
\* The leftmost vertex x of a row.
Leftmost(row) ==
    CHOOSE m \in {row[i][j].x : i \in DOMAIN row, j \in 1..Len(SinT)} :
        \A i \in DOMAIN row : \A j \in 1..Len(SinT) : m <= row[i][j].x

\* C23 (offset row length and order): _lower_side_by_side returns a row of
\* len(_side_by_side row) + 1 hexagons in strictly increasing x, whose first
\* hexagon is the first shifted hexagon moved one full pitch to the left,
\* and whose leftmost vertex is at or left of x_min.
C23_OffsetRowLength ==
    LowerRowEnded =>
        /\ outcome # "TypeError"
        /\ Len(lsbs_polys) = Len(hexagons) + 1
        /\ \A i \in 1..(Len(lsbs_polys) - 1) :
              lsbs_polys[i][1].x < lsbs_polys[i + 1][1].x
        /\ lsbs_polys[1] = translate(lsbs_polys[2], -RowPitch(hexagons[1]), 0)
        /\ Leftmost(lsbs_polys) <= 0

\* ------------------------------------------------------------------- C24
\* _sort_hexagons was called on its own, with a first upper row and as many
\* lower rows as upper rows or one fewer, and has ended.
SortEnded ==
    /\ call = "_sort_hexagons" /\ pc = "done"
    /\ Len(args.upper_polys) >= 1
    /\ Len(args.upper_polys) - Len(args.lower_polys) \in {0, 1}

\* Cell n of the output has row index r and col index c.
CellAt(n, r, c) == result.rows_idx[n] = r /\ result.cols_idx[n] = c

\* C24 (indexer numbering): _sort_hexagons returns cells in which hexagon i
\* (from 0) of upper row k (from 0) has row index 2k and col index i, and
\* of lower row k row index 2k + 1 and col index i; the cells come in
\* strictly increasing (row, col) order and the row indices used are a
\* contiguous range from 0.
C24_IndexerNumbering ==
    SortEnded =>
        /\ outcome = "returned"
        /\ \A k \in DOMAIN args.upper_polys :
              \A i \in DOMAIN args.upper_polys[k] :
                 \E n \in DOMAIN result.rows_idx : CellAt(n, 2 * (k - 1), i - 1)
        /\ \A k \in DOMAIN args.lower_polys :
              \A i \in DOMAIN args.lower_polys[k] :
                 \E n \in DOMAIN result.rows_idx : CellAt(n, 2 * k - 1, i - 1)
        /\ \A n \in 1..(Len(result.rows_idx) - 1) :
              \/ result.rows_idx[n] < result.rows_idx[n + 1]
              \/ /\ result.rows_idx[n] = result.rows_idx[n + 1]
                 /\ result.cols_idx[n] < result.cols_idx[n + 1]
        /\ \A n \in DOMAIN result.rows_idx :
              \A r \in 0..result.rows_idx[n] :
                 \E m \in DOMAIN result.rows_idx : result.rows_idx[m] = r

\* ------------------------------------------------------------------- C25
\* C25 (index order matches geometry): the read returns a tessellation in
\* which a cell of a smaller row index has a strictly greater centre y, and
\* of two cells of one row the one of smaller col index has the strictly
\* smaller centre x.
C25_IndexOrderGeometry ==
    (ValidCall /\ ReadDone) =>
        /\ Returned
        /\ \A a \in DOMAIN result : \A b \in DOMAIN result :
              /\ result[a].rows_idx < result[b].rows_idx
                    => CentreY(result[a]) > CentreY(result[b])
              /\ (result[a].rows_idx = result[b].rows_idx
                  /\ result[a].cols_idx < result[b].cols_idx)
                    => CentreX(result[a]) < CentreX(result[b])

\* ------------------------------------------------------------------- C26
\* The tessellation core is at a vertex read: _lower_side_by_side has its
\* base row and calls _lsbs_x_off(hexagons[0]).
AtVertexRead == pc = "sbs_return" /\ caller = "_lower_side_by_side"

\* C26 (boundary-vertex read): the response type the core passes is one the
\* dispatch table of geom_disassembly recognises, the read returns the
\* vertices of the hexagon as a list in construction order (element k is
\* vertex k), and subscripting it does not fail.
C26_VertexRead ==
    /\ AtVertexRead =>
          LET points == geom_disassembly(hexagons[1], PointRequest)
          IN /\ PointRequest \in ResponseTypes
             /\ Subscriptable(points)
             /\ \A k \in 1..6 : points[k] = hexagons[1][k]
    /\ LowerRowEnded => outcome # "TypeError"

\* ------------------------------------------------------------------- C27
\* C27 (row-list balance): the read runs the row-generation loop and leaves
\* it with at least one upper row and one lower row, as many upper rows as
\* lower rows or one more, so that _fitting, given these lists, reads
\* neither result_lowers[-1] nor result_uppers[-1] from an empty list.
C27_RowListBalance ==
    (ValidCall /\ ReadDone) =>
        /\ Len(upper_polys) >= 1
        /\ Len(lower_polys) >= 1
        /\ Len(upper_polys) - Len(lower_polys) \in {0, 1}
        /\ outcome \notin {"TypeError", "IndexError"}

\* ------------------------------------------------------------------- C28
\* The number of cells of row r of a tessellation.
RowLength(cells, r) ==
    Cardinality({i \in DOMAIN cells : cells[i].rows_idx = r})

\* C28 (row-length invariant): the read returns a tessellation all of whose
\* upper rows (even row index) have one length n and all of whose lower
\* rows (odd row index) have length n + 1.
C28_RowLengths ==
    (ValidCall /\ ReadDone) =>
        /\ Returned
        /\ \E n \in 1..(MaxRowLen + 1) :
              \A i \in DOMAIN result :
                 RowLength(result, result[i].rows_idx) =
                    IF result[i].rows_idx % 2 = 0 THEN n ELSE n + 1

\* ------------------------------------------------------------------- C29
\* The number of hexagons in a list of rows.
RECURSIVE TotalLength(_)
TotalLength(rows) ==
    IF Len(rows) = 0 THEN 0 ELSE Len(Head(rows)) + TotalLength(Tail(rows))

\* C29 (indexer conservation): _sort_hexagons returns three lists of one
\* length, the sum of the lengths of all rows, holding every hexagon of
\* every row once, and ends with both row lists empty.
C29_IndexerConservation ==
    (call = "_sort_hexagons" /\ pc = "done" /\ Len(args.upper_polys) >= 1) =>
        /\ outcome = "returned"
        /\ Len(result.hexagon_lst) = TotalLength(args.upper_polys)
                                      + TotalLength(args.lower_polys)
        /\ Len(result.rows_idx) = Len(result.hexagon_lst)
        /\ Len(result.cols_idx) = Len(result.hexagon_lst)
        /\ \A m \in DOMAIN result.rows_idx : \A n \in DOMAIN result.rows_idx :
              (result.rows_idx[m] = result.rows_idx[n]
               /\ result.cols_idx[m] = result.cols_idx[n]) => m = n
        /\ Len(upper_polys) = 0 /\ Len(lower_polys) = 0

\* ------------------------------------------------------------------- C30
\* _fitting was called on its own and has returned.
FittingReturned == call = "_fitting" /\ pc = "done" /\ outcome = "returned"

\* C30 (fit frame condition): after _fit, however it ended, the two lists
\* it was given have the same length and elements as before; after
\* _fitting has returned, the two lists of rows it was given are empty, and
\* the first upper row is returned as it was given.
C30_FitFrame ==
    /\ FitEnded =>
          /\ base_row = args.base_hexagons
          /\ shift_row = args.shift_hexagons
    /\ FittingReturned =>
          /\ Len(upper_polys) = 0
          /\ Len(lower_polys) = 0
          /\ result[1][1] = args.upper_polys[1]

\* C30 witness: _fit popped a hexagon from its copy of each row (and raised
\* at the vertex read), and the rows of the caller still hold theirs.
C30_Witness ==
    /\ PairTaken
    /\ outcome = "TypeError"
    /\ Len(base_row) >= 1 /\ Len(shift_row) >= 1
    /\ base_row = args.base_hexagons

====
